---- MODULE Spec2Model ----
(***************************************************************************)
(* A model of dip's Database (src/src/lib.rs): the revision clock, the     *)
(* memo store, the active-query stack and the recursive                    *)
(* get_with_timestamp / read / has_changed_since / run_query_function      *)
(* algorithm, driven by the query functions of examples/walkthrough.rs.    *)
(*                                                                         *)
(* The recursion of the Rust code is unfolded into an explicit call stack  *)
(* (variable stack): one frame per active get_with_timestamp call.  Every  *)
(* action executes the code of the top frame up to the next nested call    *)
(* or up to its return.  The iteration order of a HashSet is not fixed, so *)
(* the dependency re-check picks the next dependency nondeterministically. *)
(***************************************************************************)
EXTENDS Integers, Sequences, FiniteSets, TLC

VARIABLES
    input_ids,        \* Database.input_ids: Vec<QueryId>
    query_functions,  \* Database.query_functions: QueryId -> query function
    storage,          \* Database.storage: HashMap<Slot, Memo>
    revision,         \* Database.revision
    active_queries,   \* Database.active_queries: Vec<HashSet<Slot>>
    events,           \* what the EventLogger was handed during the current client call
    stack,            \* the Rust call stack: the active get_with_timestamp calls
    panicked,         \* "" or the message of the panic that ended the program
    calls,            \* the client's last two calls of set/get, with their results
    gets,             \* how many times the client has called get
    main              \* the client program and how many of its statements have run

vars == <<input_ids, query_functions, storage, revision, active_queries,
          events, stack, panicked, calls, gets, main>>

----------------------------------------------------------------------------
(* Bounds of the unscripted client.                                        *)

MaxRevision == 4

MaxGets == 2

\* The deepest nesting of gets that is followed: the call stack of a run has
\* an end, where a recursion without an end overflows it.
MaxDepth == 6

----------------------------------------------------------------------------
(* Data model: lib.rs lines 16-109.                                        *)

\* Key::Void
KeyVoid == <<>>

\* Key::Int(x)
KeyInt(x) == <<x>>

Slot(id, key) == [id |-> id, key |-> key]

\* Memo with verified_at taken from changed_at.
Memo_stale(value, verified_at, changed_at, dependencies) ==
    [value |-> value, verified_at |-> changed_at, changed_at |-> changed_at,
     dependencies |-> dependencies]

Memo(value, verified_at, changed_at, dependencies) ==
    [value |-> value, verified_at |-> verified_at,
     changed_at |-> changed_at, dependencies |-> dependencies]

StampedValue(value, changed_at) == [value |-> value, changed_at |-> changed_at]

\* Option<T>: None is <<>>, Some(x) is <<x>>.
None == <<>>

Some(x) == <<x>>

----------------------------------------------------------------------------
(* The example program: examples/walkthrough.rs.                           *)

BASE_FEE == "base_fee"

DISCOUNT_AGE_LIMIT == "discount_age_limit"

DISCOUNT_AMOUNT == "discount_amount"

ONE_YEAR_FEE == "one_year_fee"

TWO_YEAR_FEE == "two_year_fee"

\* A derived id a client registers for a query function that reads its own slot.
SELF_FEE == "self_fee"

\* What a query function does next, given the values its calls of db.get have
\* returned so far: call db.get(slot), return a value, or panic.
Call(id, key) == [kind |-> "call", slot |-> Slot(id, key)]

Ret(value) == [kind |-> "ret", value |-> value]

KeyMismatch == [kind |-> "panic", msg |-> "Key type mismatch"]

\* one_year_fee_query with the age limit itself excluded from the discount.
one_year_fee_query_strict(key, vals) ==
    IF key = KeyVoid THEN KeyMismatch
    ELSE LET current_age == key[1] IN
         IF Len(vals) = 0 THEN Call(DISCOUNT_AGE_LIMIT, KeyVoid)
         ELSE IF Len(vals) = 1 THEN Call(BASE_FEE, KeyVoid)
         ELSE IF current_age < vals[1]
              THEN IF Len(vals) = 2 THEN Call(DISCOUNT_AMOUNT, KeyVoid)
                   ELSE Ret(vals[2] - vals[3])
              ELSE Ret(vals[2])

\* fn one_year_fee_query(db, current_age)
one_year_fee_query(key, vals) ==
    IF key = KeyVoid THEN KeyMismatch
    ELSE LET current_age == key[1] IN
         IF Len(vals) = 0 THEN Call(DISCOUNT_AGE_LIMIT, KeyVoid)
         ELSE IF Len(vals) = 1 THEN Call(BASE_FEE, KeyVoid)
         ELSE IF current_age <= vals[1]
              THEN IF Len(vals) = 2 THEN Call(DISCOUNT_AMOUNT, KeyVoid)
                   ELSE Ret(vals[2] - vals[3])
              ELSE Ret(vals[2])

\* two_year_fee_query calling itself for the second year.
two_year_fee_query_recursive(key, vals) ==
    IF key = KeyVoid THEN KeyMismatch
    ELSE LET current_age == key[1] IN
         IF Len(vals) = 0 THEN Call(ONE_YEAR_FEE, KeyInt(current_age))
         ELSE IF Len(vals) = 1 THEN Call(TWO_YEAR_FEE, KeyInt(current_age + 1))
         ELSE Ret(vals[1] + vals[2])

\* fn two_year_fee_query(db, current_age)
two_year_fee_query(key, vals) ==
    IF key = KeyVoid THEN KeyMismatch
    ELSE LET current_age == key[1] IN
         IF Len(vals) = 0 THEN Call(ONE_YEAR_FEE, KeyInt(current_age))
         ELSE IF Len(vals) = 1 THEN Call(ONE_YEAR_FEE, KeyInt(current_age + 1))
         ELSE Ret(vals[1] + vals[2])

\* A query function that reads its own slot: |db, key| db.get(SELF_FEE, key).
self_fee_query(key, vals) ==
    IF Len(vals) = 0 THEN Call(SELF_FEE, key) ELSE Ret(vals[1])

\* Calling the boxed fn(&mut Database, Key) -> Value registered under a name.
QueryStep(fn, key, vals) ==
    IF fn = "one_year_fee_query" THEN one_year_fee_query(key, vals)
    ELSE IF fn = "self_fee_query" THEN self_fee_query(key, vals)
    ELSE two_year_fee_query(key, vals)

\* create_database(): the registry handed to Database::new.
create_database_input_ids == <<BASE_FEE, DISCOUNT_AGE_LIMIT, DISCOUNT_AMOUNT>>

create_database_query_functions ==
    (ONE_YEAR_FEE :> "one_year_fee_query") @@ (TWO_YEAR_FEE :> "two_year_fee_query")

----------------------------------------------------------------------------
(* Helpers of Database: lib.rs lines 396-421.                              *)

is_input_query(id) == \E i \in DOMAIN input_ids : input_ids[i] = id

read_memo(slot) == IF slot \in DOMAIN storage THEN Some(storage[slot]) ELSE None

\* store_memo inserting into an empty map instead of the store.
store_memo_fresh(st, slot, memo) == [s \in {slot} |-> memo]

store_memo(st, slot, memo) ==
    [s \in (DOMAIN st) \cup {slot} |-> IF s = slot THEN memo ELSE st[s]]

push_active_query(aq) == Append(aq, {})

pop_active_query(aq) == SubSeq(aq, 1, Len(aq) - 1)

\* record_dependency recording the slot's id with the unit key.
record_dependency_keyless(aq, slot) ==
    IF aq = <<>> THEN aq ELSE [aq EXCEPT ![Len(aq)] = @ \cup {Slot(slot.id, KeyVoid)}]

\* record_dependency skipped for a slot whose memo is verified at the current
\* revision, as if the fast path returned before the dependency is recorded.
record_dependency_unless_verified(aq, slot) ==
    IF aq = <<>> \/ (slot \in DOMAIN storage /\ storage[slot].verified_at = revision)
    THEN aq
    ELSE [aq EXCEPT ![Len(aq)] = @ \cup {slot}]

\* get_with_timestamp, lines 224-226: record the slot in the caller's accumulator.
record_dependency(aq, slot) ==
    IF aq = <<>> THEN aq ELSE [aq EXCEPT ![Len(aq)] = @ \cup {slot}]

\* retained_changed_at without the comparison of the values.
retained_changed_at_unfiltered(memo, value, rev) ==
    IF memo # None THEN memo[1].changed_at ELSE rev

\* retained_changed_at without the early cutoff.
retained_changed_at_never(memo, value, rev) == rev

\* memo.filter(|m| m.value == value).map(|m| m.changed_at).unwrap_or(revision):
\* set lines 191-194 and read lines 332-335.
retained_changed_at(memo, value, rev) ==
    IF memo # None /\ memo[1].value = value THEN memo[1].changed_at ELSE rev

\* verified_now updating the other stamp.
verified_now_changed(memo, rev) == [memo EXCEPT !.changed_at = rev]

\* verified_now taking the dependencies from the accumulators in progress, as
\* the memo of a recomputation does, instead of from the memo it refreshes.
verified_now_recording(memo, rev) ==
    [memo EXCEPT !.verified_at = rev,
                 !.dependencies = UNION {active_queries[i] : i \in DOMAIN active_queries}]

\* Memo { verified_at: self.revision, ..memo }: read lines 277-280 and 312-315.
verified_now(memo, rev) == [memo EXCEPT !.verified_at = rev]

\* changed_since with >= for >.
changed_since_or_at(changed_at, rev) == changed_at >= rev

\* has_changed_since line 378.
changed_since(changed_at, rev) == changed_at > rev

Event(ev, slot, arg) == [ev |-> ev, slot |-> slot, arg |-> arg]

----------------------------------------------------------------------------
(* The call stack.                                                         *)

\* A fresh activation of get_with_timestamp(slot), about to call read(slot).
\*   memo     the memo read at line 245
\*   todo     the dependencies has_changed_since has still to be asked about
\*   changed  any_inputs_have_changed so far
\*   vals     the values the running query function has got from db.get
\*   reads    the slots the running query function has called db.get on
Frame(slot) ==
    [slot |-> slot, pc |-> "read", memo |-> None, todo |-> {},
     changed |-> FALSE, vals |-> <<>>, reads |-> {}]

Top == stack[Len(stack)]

Running == stack # <<>> /\ panicked = ""

Idle == stack = <<>> /\ panicked = ""

\* A panic unwinds every frame; no destructor restores the database's fields.
Panic(msg) ==
    /\ panicked' = msg
    /\ stack' = <<>>
    /\ UNCHANGED <<input_ids, query_functions, storage, revision, active_queries>>

\* The record the client keeps of a call: the database before it and, once a
\* get has returned, its result.
CallRecord(op, slot, value) ==
    [op |-> op, slot |-> slot, value |-> value, result |-> None,
     pre_storage |-> storage, pre_revision |-> revision]

Remember(rec) ==
    IF Len(calls) < 2 THEN Append(calls, rec) ELSE <<calls[2], rec>>

----------------------------------------------------------------------------
(* Database::set, lib.rs lines 170-207.                                    *)

\* set bumping the revision only when the value changes.
set_bumping_on_change(id, key, value) ==
    IF ~ is_input_query(id)
    THEN Panic("not a valid input id") /\ events' = <<>>
    ELSE LET slot == Slot(id, key)
             old == read_memo(slot)
             rev == IF old # None /\ old[1].value = value
                    THEN revision ELSE revision + 1
             changed_at == retained_changed_at(old, value, rev)
             memo == Memo(value, rev, changed_at, {})
         IN  /\ revision' = rev
             /\ storage' = store_memo(storage, slot, memo)
             /\ events' = <<Event("Set", slot, value), Event("StoreMemo", slot, memo)>>
             /\ UNCHANGED <<input_ids, query_functions, active_queries,
                            stack, panicked>>

\* set with the assertion of lines 171-175 made after the revision is bumped.
set_asserting_late(id, key, value) ==
    IF ~ is_input_query(id)
    THEN /\ panicked' = "not a valid input id"
         /\ revision' = revision + 1
         /\ events' = <<>>
         /\ UNCHANGED <<input_ids, query_functions, storage, active_queries, stack>>
    ELSE LET slot == Slot(id, key)
             rev == revision + 1
             changed_at == retained_changed_at(read_memo(slot), value, rev)
             memo == Memo(value, rev, changed_at, {})
         IN  /\ revision' = rev
             /\ storage' = store_memo(storage, slot, memo)
             /\ events' = <<Event("Set", slot, value), Event("StoreMemo", slot, memo)>>
             /\ UNCHANGED <<input_ids, query_functions, active_queries,
                            stack, panicked>>

set(id, key, value) ==
    IF ~ is_input_query(id)
    THEN Panic("not a valid input id") /\ events' = <<>>
    ELSE LET slot == Slot(id, key)
             rev == revision + 1
             changed_at == retained_changed_at(read_memo(slot), value, rev)
             memo == Memo(value, rev, changed_at, {})
         IN  /\ revision' = rev
             /\ storage' = store_memo(storage, slot, memo)
             /\ events' = <<Event("Set", slot, value), Event("StoreMemo", slot, memo)>>
             /\ UNCHANGED <<input_ids, query_functions, active_queries,
                            stack, panicked>>

----------------------------------------------------------------------------
(* Database::get_with_timestamp, lib.rs lines 216-239.                     *)

\* Lines 217-233: record the dependency, push an accumulator, call read(slot).
\* caller is the calling frame as it is left waiting (None for a client call).
get_with_timestamp(slot, caller, log) ==
    /\ Len(stack) < MaxDepth
    /\ active_queries' = push_active_query(record_dependency(active_queries, slot))
    /\ stack' = IF caller = None THEN <<Frame(slot)>>
                ELSE Append([stack EXCEPT ![Len(stack)] = caller[1]], Frame(slot))
    /\ events' = log \o <<Event("Get", slot, None)>>
    /\ UNCHANGED <<input_ids, query_functions, storage, revision, panicked>>

\* Lines 236-238 for the top frame, whose read(slot) stored st, logged log and
\* returned sv, and then the code the caller runs on that result: the rest
\* of has_changed_since (lines 374-378), the query function's use of db.get's
\* value, or the client's use of get's value (line 211).
Return(sv, st, log) ==
    LET callee == Top
        rest == SubSeq(stack, 1, Len(stack) - 1)
    IN  /\ storage' = st
        /\ active_queries' = pop_active_query(active_queries)
        /\ IF rest = <<>>
           THEN /\ stack' = <<>>
                /\ events' = events \o log
                /\ calls' = [calls EXCEPT ![Len(calls)].result = Some(sv.value)]
                /\ panicked' = IF calls[Len(calls)].value # None
                                  /\ calls[Len(calls)].value # Some(sv.value)
                               THEN "assertion failed" ELSE panicked
           ELSE LET caller == rest[Len(rest)] IN
                /\ IF caller.pc = "check"
                   THEN /\ stack' = [rest EXCEPT ![Len(rest)] =
                               [caller EXCEPT
                                  !.changed = changed_since(sv.changed_at,
                                                            caller.memo[1].verified_at),
                                  !.todo = @ \ {callee.slot}]]
                        /\ events' = events \o log
                               \o <<Event("ChangedAt", callee.slot, sv.changed_at)>>
                   ELSE /\ stack' = [rest EXCEPT ![Len(rest)].vals = Append(@, sv.value)]
                        /\ events' = events \o log
                /\ UNCHANGED <<calls, panicked>>
        /\ UNCHANGED <<input_ids, query_functions, revision, main>>

----------------------------------------------------------------------------
(* Database::read, lib.rs lines 243-347, for the top frame.                *)

\* Lines 247-285: the slot is an input.
ReadInput ==
    /\ UNCHANGED <<gets, main>>
    /\ Running /\ Top.pc = "read"
    /\ is_input_query(Top.slot.id)
    /\ LET slot == Top.slot
           memo == read_memo(slot)
       IN  IF memo = None
           THEN Panic("attempting to query an input slot that has not been set")
                /\ UNCHANGED <<events, calls>>
           ELSE IF memo[1].verified_at # revision
                THEN LET new_memo == verified_now(memo[1], revision) IN
                     Return(StampedValue(memo[1].value, memo[1].changed_at),
                            store_memo(storage, slot, new_memo),
                            <<Event("StoreMemo", slot, new_memo)>>)
                ELSE Return(StampedValue(memo[1].value, memo[1].changed_at),
                            storage, <<>>)

\* ReadVerified with the fast path storing the memo again, stamped as changed
\* at the current revision.
ReadVerified_restamping ==
    /\ UNCHANGED <<gets, main>>
    /\ Running /\ Top.pc = "read"
    /\ ~ is_input_query(Top.slot.id)
    /\ LET memo == read_memo(Top.slot) IN
       /\ memo # None
       /\ memo[1].verified_at = revision
       /\ LET new_memo == [memo[1] EXCEPT !.changed_at = revision] IN
          Return(StampedValue(new_memo.value, new_memo.changed_at),
                 store_memo(storage, Top.slot, new_memo),
                 <<Event("StoreMemo", Top.slot, new_memo)>>)

\* Lines 288-293: a derived slot whose memo was verified at this revision.
ReadVerified ==
    /\ UNCHANGED <<gets, main>>
    /\ Running /\ Top.pc = "read"
    /\ ~ is_input_query(Top.slot.id)
    /\ LET memo == read_memo(Top.slot) IN
       /\ memo # None
       /\ memo[1].verified_at = revision
       /\ Return(StampedValue(memo[1].value, memo[1].changed_at), storage, <<>>)

\* Lines 295-302: a derived slot with a memo of an earlier revision: start
\* asking has_changed_since about its dependencies.
StartInputChecks ==
    /\ UNCHANGED <<gets, main>>
    /\ Running /\ Top.pc = "read"
    /\ ~ is_input_query(Top.slot.id)
    /\ LET memo == read_memo(Top.slot) IN
       /\ memo # None
       /\ memo[1].verified_at # revision
       /\ stack' = [stack EXCEPT ![Len(stack)] =
                      [Top EXCEPT !.pc = "check", !.memo = memo,
                                  !.todo = memo[1].dependencies]]
       /\ events' = Append(events,
                           Event("StartedInputChecks", Top.slot, memo[1].verified_at))
    /\ UNCHANGED <<input_ids, query_functions, storage, revision,
                   active_queries, panicked, calls>>

\* run_query_function, lines 384-391: log the start (line 385), look the
\* function up and start it. log is what read logged on its way here.
run_query_function(log) ==
    IF Top.slot.id \notin DOMAIN query_functions
    THEN /\ Panic("Missing query function")
         /\ events' = events \o log
                \o <<Event("StartedQueryEvaluation", Top.slot, None)>>
         /\ UNCHANGED calls
    ELSE /\ stack' = [stack EXCEPT ![Len(stack)].pc = "run"]
         /\ events' = events \o log
                \o <<Event("StartedQueryEvaluation", Top.slot, None)>>
         /\ UNCHANGED <<input_ids, query_functions, storage, revision,
                        active_queries, panicked, calls>>

\* Line 288 finds no memo: fall through to line 323.
ComputeNew ==
    /\ UNCHANGED <<gets, main>>
    /\ Running /\ Top.pc = "read"
    /\ ~ is_input_query(Top.slot.id)
    /\ read_memo(Top.slot) = None
    /\ run_query_function(<<>>)

\* has_changed_since(dep, memo.verified_at), lines 362-379, for a dependency
\* whose memo is verified at the current revision (or is missing).
CheckVerifiedDependency(dep) ==
    /\ UNCHANGED <<gets, main>>
    /\ Running /\ Top.pc = "check" /\ ~ Top.changed
    /\ dep \in Top.todo
    /\ IF dep \notin DOMAIN storage
       THEN Panic("previously queried values always exist")
            /\ UNCHANGED <<events, calls>>
       ELSE /\ storage[dep].verified_at = revision
            /\ LET changed_at == storage[dep].changed_at IN
               /\ stack' = [stack EXCEPT ![Len(stack)] =
                     [Top EXCEPT
                        !.changed = changed_since(changed_at, Top.memo[1].verified_at),
                        !.todo = @ \ {dep}]]
               /\ events' = Append(events, Event("ChangedAt", dep, changed_at))
            /\ UNCHANGED <<input_ids, query_functions, storage, revision,
                           active_queries, panicked, calls>>

\* has_changed_since, line 374: the dependency's memo is not verified at the
\* current revision, recurse into get_with_timestamp.
CheckStaleDependency(dep) ==
    /\ UNCHANGED <<gets, main>>
    /\ Running /\ Top.pc = "check" /\ ~ Top.changed
    /\ dep \in Top.todo
    /\ dep \in DOMAIN storage
    /\ storage[dep].verified_at # revision
    /\ get_with_timestamp(dep, Some(Top), events)
    /\ UNCHANGED calls

\* Lines 311-318: no dependency has changed, the memo is still valid.
Revalidate ==
    /\ UNCHANGED <<gets, main>>
    /\ Running /\ Top.pc = "check"
    /\ ~ Top.changed /\ Top.todo = {}
    /\ LET memo == Top.memo[1]
           new_memo == verified_now(memo, revision)
       IN  Return(StampedValue(memo.value, memo.changed_at),
                  store_memo(storage, Top.slot, new_memo),
                  <<Event("CompletedInputChecks", Top.slot, FALSE),
                    Event("StoreMemo", Top.slot, new_memo)>>)

\* any() has found a changed dependency: fall through to line 323.
Recompute ==
    /\ UNCHANGED <<gets, main>>
    /\ Running /\ Top.pc = "check"
    /\ Top.changed
    /\ run_query_function(<<Event("CompletedInputChecks", Top.slot, TRUE)>>)

\* Line 391, query(self, slot.key): the query function runs up to its next
\* call of db.get, which is get_with_timestamp(slot) (line 211).
QueryCall ==
    /\ UNCHANGED <<gets, main>>
    /\ Running /\ Top.pc = "run"
    /\ LET step == QueryStep(query_functions[Top.slot.id], Top.slot.key, Top.vals) IN
       /\ step.kind # "ret"
       /\ IF step.kind = "panic"
          THEN Panic(step.msg) /\ UNCHANGED events
          ELSE get_with_timestamp(step.slot,
                                  Some([Top EXCEPT !.reads = @ \cup {step.slot}]),
                                  events)
    /\ UNCHANGED calls

\* The query function returns: lines 323-346.
QueryReturn ==
    /\ UNCHANGED <<gets, main>>
    /\ Running /\ Top.pc = "run"
    /\ LET step == QueryStep(query_functions[Top.slot.id], Top.slot.key, Top.vals) IN
       /\ step.kind = "ret"
       /\ LET new_value == step.value
              changed_at == retained_changed_at(Top.memo, new_value, revision)
              memo == Memo(new_value, revision, changed_at,
                           active_queries[Len(active_queries)])
          IN  Return(StampedValue(new_value, changed_at),
                     store_memo(storage, Top.slot, memo),
                     <<Event("CompletedQueryEvaluation", Top.slot, Top.reads),
                       Event("StoreMemo", Top.slot, memo)>>)

Step ==
    \/ ReadInput
    \/ ReadVerified
    \/ StartInputChecks
    \/ ComputeNew
    \/ \E dep \in (IF Running THEN Top.todo ELSE {}) : CheckVerifiedDependency(dep)
    \/ \E dep \in (IF Running THEN Top.todo ELSE {}) : CheckStaleDependency(dep)
    \/ Revalidate
    \/ Recompute
    \/ QueryCall
    \/ QueryReturn

----------------------------------------------------------------------------
(* The client.                                                             *)

\* Database::new, lines 152-164, on create_database()'s registry.
Init ==
    /\ input_ids = create_database_input_ids
    /\ query_functions = create_database_query_functions
    /\ storage = <<>>
    /\ revision = 0
    /\ active_queries = <<>>
    /\ events = <<>>
    /\ stack = <<>>
    /\ panicked = ""
    /\ calls = <<>>
    /\ gets = 0
    /\ main = [program |-> "any", pc |-> 0]

\* The calls an unscripted client chooses from.
ClientSets ==
    {<<BASE_FEE, KeyVoid, 100>>,
     <<DISCOUNT_AMOUNT, KeyVoid, 30>>,
     <<DISCOUNT_AGE_LIMIT, KeyVoid, 16>>, <<DISCOUNT_AGE_LIMIT, KeyVoid, 17>>,
     <<ONE_YEAR_FEE, KeyInt(16), 70>>,
     <<"unregistered", KeyVoid, 1>>}

ClientGets ==
    {Slot(DISCOUNT_AGE_LIMIT, KeyVoid),
     Slot(ONE_YEAR_FEE, KeyInt(16)), Slot(ONE_YEAR_FEE, KeyInt(17)),
     Slot(TWO_YEAR_FEE, KeyInt(16)),
     Slot("unregistered", KeyVoid)}

\* db.set(id, key, value)
ClientSet(id, key, value) ==
    /\ Idle
    /\ revision < MaxRevision
    /\ set(id, key, value)
    /\ calls' = Remember(CallRecord("set", Slot(id, key), Some(value)))
    /\ UNCHANGED <<gets, main>>

\* db.get(id, key), line 210-212
ClientGet(slot) ==
    /\ Idle
    /\ gets < MaxGets
    /\ get_with_timestamp(slot, None, <<>>)
    /\ calls' = Remember(CallRecord("get", slot, None))
    /\ gets' = gets + 1
    /\ UNCHANGED main

\* A statement of a client program: db.set(id, key, value), or db.get(id, key)
\* with the value an assert_eq! expects of it (None when there is no assert).
SetStmt(id, key, value) == [op |-> "set", slot |-> Slot(id, key), value |-> Some(value)]

GetStmt(id, key, expect) == [op |-> "get", slot |-> Slot(id, key), value |-> expect]

\* fn main() of examples/walkthrough.rs, lines 180-225: scenarios 1 to 3.
walkthrough_main ==
    << SetStmt(BASE_FEE, KeyVoid, 100),
       SetStmt(DISCOUNT_AMOUNT, KeyVoid, 30),
       SetStmt(DISCOUNT_AGE_LIMIT, KeyVoid, 16),
       GetStmt(ONE_YEAR_FEE, KeyInt(16), Some(70)),
       GetStmt(ONE_YEAR_FEE, KeyInt(17), Some(100)),
       GetStmt(TWO_YEAR_FEE, KeyInt(17), Some(200)),
       SetStmt(DISCOUNT_AMOUNT, KeyVoid, 40),
       GetStmt(ONE_YEAR_FEE, KeyInt(17), Some(100)),
       GetStmt(ONE_YEAR_FEE, KeyInt(16), Some(60)),
       SetStmt(DISCOUNT_AGE_LIMIT, KeyVoid, 17),
       GetStmt(TWO_YEAR_FEE, KeyInt(17), Some(160)) >>

\* Scenarios 4 and 5 continue main(): set(base, 100), get(one(16)) twice.
Scenario4And5 ==
    << SetStmt(BASE_FEE, KeyVoid, 100),
       GetStmt(ONE_YEAR_FEE, KeyInt(16), None),
       GetStmt(ONE_YEAR_FEE, KeyInt(16), None) >>

\* Scenario 6, on a fresh database of the same registry.
Scenario6 ==
    << SetStmt(BASE_FEE, KeyVoid, 100),
       SetStmt(DISCOUNT_AMOUNT, KeyVoid, 30),
       SetStmt(DISCOUNT_AGE_LIMIT, KeyVoid, 10),
       GetStmt(ONE_YEAR_FEE, KeyInt(5), None),
       SetStmt(DISCOUNT_AGE_LIMIT, KeyVoid, 3),
       GetStmt(ONE_YEAR_FEE, KeyInt(5), None),
       SetStmt(DISCOUNT_AMOUNT, KeyVoid, 40),
       GetStmt(ONE_YEAR_FEE, KeyInt(5), None) >>

\* A downstream query over two derived slots that a set makes the engine
\* recompute to the values they held: two(18) = one(18) + one(19), on a fresh
\* database of the same registry, with the age limit moved from 16 to 17.
OutputCutoff ==
    << SetStmt(BASE_FEE, KeyVoid, 100),
       SetStmt(DISCOUNT_AMOUNT, KeyVoid, 30),
       SetStmt(DISCOUNT_AGE_LIMIT, KeyVoid, 16),
       GetStmt(TWO_YEAR_FEE, KeyInt(18), None),
       SetStmt(DISCOUNT_AGE_LIMIT, KeyVoid, 17),
       GetStmt(TWO_YEAR_FEE, KeyInt(18), None) >>

\* A client of the registry that also holds self_fee_query.
SelfRead ==
    << SetStmt(BASE_FEE, KeyVoid, 100),
       GetStmt(SELF_FEE, KeyInt(1), None) >>

Program(name) ==
    IF name = "walkthrough" THEN walkthrough_main \o Scenario4And5
    ELSE IF name = "scenario6" THEN Scenario6
    ELSE IF name = "cutoff" THEN OutputCutoff
    ELSE IF name = "selfread" THEN SelfRead
    ELSE <<>>

\* The client program executes its next statement.
MainCall ==
    /\ Idle
    /\ main.pc < Len(Program(main.program))
    /\ LET stmt == Program(main.program)[main.pc + 1] IN
       /\ IF stmt.op = "set"
          THEN set(stmt.slot.id, stmt.slot.key, stmt.value[1])
          ELSE get_with_timestamp(stmt.slot, None, <<>>)
       /\ calls' = Remember(CallRecord(stmt.op, stmt.slot, stmt.value))
       /\ gets' = IF stmt.op = "get" THEN gets + 1 ELSE gets
    /\ main' = [main EXCEPT !.pc = @ + 1]

Next ==
    \/ \E c \in ClientSets : ClientSet(c[1], c[2], c[3])
    \/ \E slot \in ClientGets : ClientGet(slot)
    \/ Step

Spec == Init /\ [][Next]_vars

\* The database driven by the client programs of the scenarios.
InitScenarios ==
    /\ input_ids = create_database_input_ids
    /\ query_functions = create_database_query_functions
    /\ storage = <<>>
    /\ revision = 0
    /\ active_queries = <<>>
    /\ events = <<>>
    /\ stack = <<>>
    /\ panicked = ""
    /\ calls = <<>>
    /\ gets = 0
    /\ main \in {[program |-> "walkthrough", pc |-> 0],
                 [program |-> "scenario6", pc |-> 0],
                 [program |-> "cutoff", pc |-> 0]}

NextScenarios ==
    \/ MainCall
    \/ Step

SpecScenarios == InitScenarios /\ [][NextScenarios]_vars

\* Arguments a client may hand to Database::new(input_ids, query_functions):
\* create_database()'s, and the same with one_year_fee also listed as an input.
Registries ==
    {[input_ids |-> create_database_input_ids,
      query_functions |-> create_database_query_functions],
     [input_ids |-> Append(create_database_input_ids, ONE_YEAR_FEE),
      query_functions |-> create_database_query_functions]}

\* Database::new, lines 152-164, on any of these arguments: it stores them and
\* compares them with nothing.
InitNew ==
    /\ \E r \in Registries :
          /\ input_ids = r.input_ids
          /\ query_functions = r.query_functions
    /\ storage = <<>>
    /\ revision = 0
    /\ active_queries = <<>>
    /\ events = <<>>
    /\ stack = <<>>
    /\ panicked = ""
    /\ calls = <<>>
    /\ gets = 0
    /\ main = [program |-> "any", pc |-> 0]

SpecNew == InitNew /\ [][Next]_vars

\* The client programs on a database whose registry also holds
\* self_fee_query, each call of get running to its end: one thread executes
\* the call, so a step that can be taken is taken.
InitFair ==
    /\ input_ids = create_database_input_ids
    /\ query_functions = create_database_query_functions
                             @@ (SELF_FEE :> "self_fee_query")
    /\ storage = <<>>
    /\ revision = 0
    /\ active_queries = <<>>
    /\ events = <<>>
    /\ stack = <<>>
    /\ panicked = ""
    /\ calls = <<>>
    /\ gets = 0
    /\ main \in {[program |-> "walkthrough", pc |-> 0],
                 [program |-> "scenario6", pc |-> 0],
                 [program |-> "cutoff", pc |-> 0],
                 [program |-> "selfread", pc |-> 0]}

SpecFair == InitFair /\ [][NextScenarios]_vars /\ WF_vars(Step)

----------------------------------------------------------------------------
(* Vocabulary of the properties.                                           *)

base == Slot(BASE_FEE, KeyVoid)

discount == Slot(DISCOUNT_AMOUNT, KeyVoid)

limit == Slot(DISCOUNT_AGE_LIMIT, KeyVoid)

one(age) == Slot(ONE_YEAR_FEE, KeyInt(age))

two(age) == Slot(TWO_YEAR_FEE, KeyInt(age))

LastCall == calls[Len(calls)]

\* The client's last call was a get, and it has returned.
Returned ==
    /\ stack = <<>> /\ panicked = ""
    /\ calls # <<>> /\ LastCall.op = "get" /\ LastCall.result # None

\* The client's last call was a set, and it succeeded.
HasSet ==
    /\ stack = <<>> /\ panicked = ""
    /\ calls # <<>> /\ LastCall.op = "set"

\* A call of set that writes the value the input slot already holds.
SameValueSet(c) ==
    /\ c.op = "set"
    /\ c.slot \in DOMAIN c.pre_storage
    /\ c.pre_storage[c.slot].value = c.value[1]

\* The slots whose query function was invoked during the current client call.
Evaluated == {events[i].slot : i \in {j \in DOMAIN events :
                                        events[j].ev = "StartedQueryEvaluation"}}

\* The client program has executed pc statements and the last has returned.
At(program, pc) ==
    /\ main.program = program /\ main.pc = pc
    /\ stack = <<>> /\ panicked = ""

\* The from-scratch evaluation of a slot on the current input values, with no
\* memo consulted: None when it needs an input that was never set.
RECURSIVE Uncached(_), UncachedRun(_, _)
Uncached(slot) ==
    IF is_input_query(slot.id)
    THEN IF slot \in DOMAIN storage THEN Some(storage[slot].value) ELSE None
    ELSE IF slot.id \notin DOMAIN query_functions THEN None
    ELSE UncachedRun(slot, <<>>)

UncachedRun(slot, vals) ==
    LET step == QueryStep(query_functions[slot.id], slot.key, vals) IN
    IF step.kind = "ret" THEN Some(step.value)
    ELSE IF step.kind = "panic" THEN None
    ELSE LET v == Uncached(step.slot) IN
         IF v = None THEN None ELSE UncachedRun(slot, Append(vals, v[1]))

----------------------------------------------------------------------------
(* C1: every get returns the value a from-scratch evaluation on the        *)
(* current inputs returns, and every memo verified at the current revision *)
(* holds that value.                                                       *)
C1_GetEqualsUncached ==
    /\ \A s \in DOMAIN storage :
          storage[s].verified_at = revision => Uncached(s) = Some(storage[s].value)
    /\ Returned => LastCall.result = Uncached(LastCall.slot)

\* A get of a derived slot has returned a value other than the memoized one.
C1_Witness ==
    /\ Returned
    /\ ~ is_input_query(LastCall.slot.id)
    /\ LastCall.slot \in DOMAIN LastCall.pre_storage
    /\ LastCall.pre_storage[LastCall.slot].value # LastCall.result[1]

(* C2: in every state, also in the middle of a recursive get, every stored *)
(* memo has changed_at <= verified_at <= revision.                         *)
C2_StampsOrdered ==
    \A s \in DOMAIN storage :
        /\ storage[s].changed_at <= storage[s].verified_at
        /\ storage[s].verified_at <= revision

\* In the middle of a nested get, with a memo whose three stamps all differ.
C2_Witness ==
    /\ Len(stack) >= 2
    /\ \E s \in DOMAIN storage :
          /\ storage[s].changed_at < storage[s].verified_at
          /\ storage[s].verified_at < revision

(* C3: the revision starts at 0, every successful set adds exactly one to  *)
(* it (also a set of the stored value), and no other step changes it.      *)
C3_RevisionCountsSets ==
    /\ revision = 0
    /\ [][IF calls' # calls /\ calls'[Len(calls')].op = "set" /\ panicked' = ""
          THEN revision' = revision + 1
          ELSE revision' = revision]_vars

\* A set of the stored value, then a get that ran a query function: the
\* revision is one more than before the set.
C3_Witness ==
    /\ Returned /\ Len(calls) = 2
    /\ SameValueSet(calls[1])
    /\ Evaluated # {}
    /\ revision = calls[1].pre_revision + 1

(* C4: set on a slot that holds the same value keeps the memo's            *)
(* changed_at; otherwise changed_at is the new revision; either way        *)
(* verified_at is the new revision.                                        *)
C4_SetStamps ==
    HasSet =>
        LET c == LastCall
            m == storage[c.slot]
        IN  /\ c.slot \in DOMAIN storage
            /\ revision = c.pre_revision + 1
            /\ m.value = c.value[1]
            /\ m.verified_at = revision
            /\ m.changed_at = IF SameValueSet(c)
                              THEN c.pre_storage[c.slot].changed_at
                              ELSE revision

\* Two consecutive sets of one value: two revision bumps, one changed_at.
C4_Witness ==
    /\ HasSet /\ Len(calls) = 2
    /\ calls[1].op = "set" /\ calls[1].slot = calls[2].slot
    /\ ~ SameValueSet(calls[1]) /\ SameValueSet(calls[2])
    /\ revision = calls[1].pre_revision + 2
    /\ storage[calls[2].slot].changed_at = calls[1].pre_revision + 1

\* The case of C5: a derived slot verified at the revision before a set of
\* an input's current value, and then got.
C5_Case ==
    /\ Returned /\ Len(calls) = 2
    /\ SameValueSet(calls[1])
    /\ ~ is_input_query(calls[2].slot.id)
    /\ calls[2].slot \in DOMAIN calls[1].pre_storage
    /\ calls[1].pre_storage[calls[2].slot].verified_at = calls[1].pre_revision

(* C5: after a set of an input's current value, the next get of a derived  *)
(* slot that was verified before the set returns the same value, invokes   *)
(* no query function and leaves the slot's changed_at unchanged.           *)
C5_InputCutoff ==
    C5_Case =>
        LET before == calls[1].pre_storage[calls[2].slot] IN
        /\ calls[2].result = Some(before.value)
        /\ Evaluated = {}
        /\ storage[calls[2].slot].changed_at = before.changed_at
        /\ storage[calls[2].slot].verified_at = revision

\* The case of C5 for a slot that depends on the input that was set.
C5_Witness ==
    /\ C5_Case
    /\ calls[1].slot \in storage[calls[2].slot].dependencies

(* C6, as claimed: the dependency set a recomputation stores is exactly    *)
(* the set of slots its query function read.  (Every recomputation logs    *)
(* CompletedQueryEvaluation, with the slots read, and then StoreMemo.)     *)
C6_DependenciesAreReads ==
    \A i \in DOMAIN events :
        events[i].ev = "CompletedQueryEvaluation" =>
            events[i + 1].arg.dependencies = events[i].arg

----------------------------------------------------------------------------
(* The scenarios, under SpecScenarios.                                     *)

(* C7, as claimed: scenario 6 in every iteration order: get(one(5)) stores *)
(* {limit, base, discount}; after set(limit, 3) it recomputes and stores   *)
(* {limit, base}; after set(discount, 40) it does not run one's function.  *)
C7_Scenario6 ==
    /\ At("scenario6", 4) =>
          storage[one(5)].dependencies = {limit, base, discount}
    /\ At("scenario6", 6) =>
          /\ one(5) \in Evaluated
          /\ storage[one(5)].dependencies = {limit, base}
    /\ At("scenario6", 8) => one(5) \notin Evaluated

(* C8, as claimed: scenario 4's get(one(16)) only revalidates: no query    *)
(* function runs and one(16) is verified at the current revision.          *)
C8_Scenario4_Claimed ==
    At("walkthrough", 13) =>
        /\ Evaluated = {}
        /\ storage[one(16)].verified_at = revision

(* C8, amended: scenario 4's get(one(16)) finds limit changed since        *)
(* one(16) was verified, runs one's query function, gets 60 again, keeps   *)
(* one(16).changed_at and sets verified_at to the current revision.        *)
C8_Scenario4 ==
    At("walkthrough", 13) =>
        LET before == LastCall.pre_storage[one(16)] IN
        /\ changed_since(storage[limit].changed_at, before.verified_at)
        /\ ~ changed_since(storage[base].changed_at, before.verified_at)
        /\ Evaluated = {one(16)}
        /\ LastCall.result = Some(60)
        /\ before.value = 60
        /\ storage[one(16)].changed_at = before.changed_at
        /\ before.verified_at < revision
        /\ storage[one(16)].verified_at = revision

\* Scenario 4's get(one(16)) has returned, after the set of base to 100.
C8_Witness ==
    /\ At("walkthrough", 13)
    /\ LastCall.slot = one(16) /\ LastCall.result # None
    /\ storage[base].verified_at = revision

(* C9, as claimed: in scenario 2 get(one(17)) runs one's query function,   *)
(* yields 100 and keeps changed_at; get(one(16)) recomputes to 60 and      *)
(* advances changed_at to the current revision.                            *)
C9_Scenario2_Claimed ==
    /\ At("walkthrough", 8) =>
          /\ one(17) \in Evaluated
          /\ LastCall.result = Some(100)
          /\ storage[one(17)].changed_at = LastCall.pre_storage[one(17)].changed_at
    /\ At("walkthrough", 9) =>
          /\ one(16) \in Evaluated
          /\ LastCall.result = Some(60)
          /\ storage[one(16)].changed_at = revision

(* C9, amended: in scenario 2 get(one(17)) is revalidated without any      *)
(* query function running (discount is no dependency of one(17)), returns  *)
(* 100 and keeps changed_at; get(one(16)) recomputes to 60 and advances    *)
(* changed_at to the current revision.                                     *)
C9_Scenario2 ==
    /\ At("walkthrough", 8) =>
          /\ Evaluated = {}
          /\ discount \notin storage[one(17)].dependencies
          /\ LastCall.result = Some(100)
          /\ storage[one(17)].changed_at = LastCall.pre_storage[one(17)].changed_at
          /\ storage[one(17)].changed_at < revision
          /\ storage[one(17)].verified_at = revision
    /\ At("walkthrough", 9) =>
          /\ Evaluated = {one(16)}
          /\ LastCall.result = Some(60)
          /\ LastCall.pre_storage[one(16)].changed_at < revision
          /\ storage[one(16)].changed_at = revision

\* Scenario 2's two gets have returned.
C9_Witness ==
    /\ At("walkthrough", 9)
    /\ LastCall.slot = one(16) /\ LastCall.result # None
    /\ calls[1].slot = one(17) /\ calls[1].result # None
    /\ storage[discount].value = 40

\* The client program's statement number pc was a get that has ended.
Ended(program, pc) ==
    main.program = program /\ main.pc = pc /\ stack = <<>>

(* C10: scenario 1: get(one(16)) = 70, get(one(17)) = 100 and              *)
(* get(two(17)) = 200, and then exactly seven slots are memoized.          *)
C10_Scenario1 ==
    /\ Ended("walkthrough", 4) => LastCall.result = Some(70)
    /\ Ended("walkthrough", 5) => LastCall.result = Some(100)
    /\ Ended("walkthrough", 6) =>
          /\ LastCall.result = Some(200)
          /\ DOMAIN storage = {base, discount, limit,
                               one(16), one(17), one(18), two(17)}

\* Scenario 1's get(two(17)) has returned.
C10_Witness ==
    /\ At("walkthrough", 6)
    /\ LastCall.slot = two(17) /\ LastCall.result # None
    /\ revision = 3

(* C11: scenario 3: after set(limit, 17), get(two(17)) returns 160 and, in *)
(* whatever order the dependencies are checked, one(17) is recomputed to   *)
(* 60 with changed_at advanced to the current revision, one(18) is         *)
(* recomputed to 100 with changed_at unchanged, and two(17) is recomputed. *)
C11_Scenario3 ==
    At("walkthrough", 11) =>
        /\ LastCall.result = Some(160)
        /\ Evaluated = {one(17), one(18), two(17)}
        /\ storage[one(17)].value = 60
        /\ LastCall.pre_storage[one(17)].changed_at < revision
        /\ storage[one(17)].changed_at = revision
        /\ storage[one(18)].value = 100
        /\ storage[one(18)].changed_at = LastCall.pre_storage[one(18)].changed_at
        /\ storage[one(18)].changed_at < revision
        /\ storage[two(17)].value = 160
        /\ storage[two(17)].changed_at = revision

\* Scenario 3's get(two(17)) has returned, after set(limit, 17).
C11_Witness ==
    /\ At("walkthrough", 11)
    /\ LastCall.slot = two(17) /\ LastCall.result # None
    /\ calls[1].op = "set" /\ calls[1].slot = limit
    /\ storage[limit].value = 17

(* C12: the active-query stack is balanced: while gets are executing it    *)
(* holds one accumulator per get in progress, so that every get that       *)
(* returns leaves the depth it found, and it is empty whenever no get is   *)
(* executing.                                                              *)
C12_StackBalanced ==
    /\ panicked = "" => Len(active_queries) = Len(stack)
    /\ stack = <<>> => active_queries = <<>>

\* The current client call has asked has_changed_since about no dependency
\* and has invoked no query function.
NoWalk ==
    \A i \in DOMAIN events :
        events[i].ev \notin {"StartedInputChecks", "ChangedAt",
                             "StartedQueryEvaluation", "StoreMemo"}

\* The client's last two calls were gets of the same slot, and both returned.
SecondGet ==
    /\ Returned
    /\ Len(calls) = 2
    /\ calls[1].op = "get" /\ calls[1].result # None
    /\ calls[1].slot = calls[2].slot

(* C13: a get that returns leaves the slot's memo verified at the current  *)
(* revision; no later get before the next set touches a memo verified at   *)
(* the current revision; and a get of a slot whose memo is verified at the *)
(* current revision, in particular the second of two consecutive gets of   *)
(* one slot, asks has_changed_since about no dependency and invokes no     *)
(* query function.                                                         *)
C13_VerifiedFastPath ==
    /\ Returned => storage[LastCall.slot].verified_at = revision
    /\ (calls # <<>> /\ LastCall.op = "get") =>
          \A s \in DOMAIN LastCall.pre_storage :
              LastCall.pre_storage[s].verified_at = revision =>
                  storage[s] = LastCall.pre_storage[s]
    /\ (/\ Returned
        /\ LastCall.slot \in DOMAIN LastCall.pre_storage
        /\ LastCall.pre_storage[LastCall.slot].verified_at = revision) => NoWalk
    /\ SecondGet => NoWalk

\* Scenario 5 in the unscripted client: a derived slot with dependencies was
\* computed by one get and served by the next get without any walk.
C13_Witness ==
    /\ SecondGet
    /\ ~ is_input_query(LastCall.slot.id)
    /\ storage[LastCall.slot].dependencies # {}
    /\ LastCall.pre_storage = storage
    /\ Len(events) = 1 /\ events[1].ev = "Get"

(* C14: two consecutive gets of the same slot with no set in between       *)
(* return equal values, and across the second get the slot's verified_at   *)
(* does not decrease and its changed_at, value and dependency set are      *)
(* unchanged.                                                              *)
C14_ConsecutiveGets ==
    SecondGet =>
        LET slot == LastCall.slot
            before == LastCall.pre_storage[slot]
            after == storage[slot]
        IN  /\ calls[2].result = calls[1].result
            /\ after.verified_at >= before.verified_at
            /\ after.changed_at = before.changed_at
            /\ after.value = before.value
            /\ after.dependencies = before.dependencies

\* Scenario 5: the second get(one(16)) has returned, on a memo that the first
\* get recomputed to the value it held, so that changed_at is an earlier
\* revision than verified_at.
C14_Witness ==
    /\ SecondGet
    /\ LastCall.slot = one(16)
    /\ calls[2].result = Some(storage[one(16)].value)
    /\ storage[one(16)].changed_at < storage[one(16)].verified_at
    /\ storage[one(16)].verified_at = revision

\* The memo that the current client call stored for slot when it finished
\* evaluating slot's query function, if it did.
Recomputed(slot) ==
    {events[i + 1].arg : i \in {j \in DOMAIN events :
        /\ events[j].ev = "CompletedQueryEvaluation"
        /\ events[j].slot = slot
        /\ j < Len(events)
        /\ events[j + 1].ev = "StoreMemo"}}

\* The get that returned was of a derived slot whose memo was stale and whose
\* dependencies changed only through derived slots that this call recomputed
\* to the values they held.
C15_Case ==
    /\ Returned
    /\ ~ is_input_query(LastCall.slot.id)
    /\ LastCall.slot \in DOMAIN LastCall.pre_storage
    /\ LET old == LastCall.pre_storage
           m == old[LastCall.slot]
       IN  /\ m.verified_at < revision
           /\ \E f \in m.dependencies : f \in Evaluated
           /\ \A f \in m.dependencies :
                 IF f \in Evaluated
                 THEN storage[f].value = old[f].value
                 ELSE storage[f].changed_at <= m.verified_at

(* C15: output-level early cutoff: a derived slot recomputed to the value  *)
(* of its existing memo keeps that memo's changed_at, and any other        *)
(* recomputation stamps changed_at with the current revision; a downstream *)
(* memo whose dependencies changed only through such slots is revalidated: *)
(* verified_at becomes the current revision, changed_at, value and         *)
(* dependencies stay, and its query function is not invoked.               *)
C15_OutputCutoff ==
    /\ (calls # <<>> /\ LastCall.op = "get") =>
          \A f \in Evaluated : \A memo \in Recomputed(f) :
              LET old == LastCall.pre_storage IN
              memo.changed_at = IF f \in DOMAIN old /\ old[f].value = memo.value
                                THEN old[f].changed_at
                                ELSE revision
    /\ C15_Case =>
          /\ LastCall.slot \notin Evaluated
          /\ storage[LastCall.slot] =
                [LastCall.pre_storage[LastCall.slot] EXCEPT !.verified_at = revision]

\* get(two(18)) has returned after the age limit moved from 16 to 17: one(18)
\* and one(19) were recomputed to 100, and two(18) was not.
C15_Witness ==
    /\ C15_Case
    /\ At("cutoff", 6)
    /\ LastCall.slot = two(18)
    /\ Evaluated = {one(18), one(19)}
    /\ storage[two(18)].changed_at < storage[two(18)].verified_at

\* The client's last call was a get, and it failed.
FailedGet ==
    /\ calls # <<>> /\ LastCall.op = "get"
    /\ panicked \in {"attempting to query an input slot that has not been set",
                     "Missing query function",
                     "Key type mismatch",
                     "previously queried values always exist"}

(* C16: a failing get leaves the database as if the call had not been     *)
(* made: the memo store, the revision and the active-query stack equal     *)
(* their values before the outermost call.                                 *)
C16_FailedGetLeavesNoTrace ==
    FailedGet =>
        /\ storage = LastCall.pre_storage
        /\ revision = LastCall.pre_revision
        /\ active_queries = <<>>

\* The client's last call was a set with an id that is not an input id.
BadSet ==
    /\ calls # <<>> /\ LastCall.op = "set"
    /\ ~ is_input_query(LastCall.slot.id)

(* C17: set with an id that is not an input id, be it a derived id or an   *)
(* unregistered one, fails and changes nothing: the revision is not        *)
(* incremented and no memo is inserted or replaced.                        *)
C17_BadSetChangesNothing ==
    BadSet =>
        /\ panicked = "not a valid input id"
        /\ revision = LastCall.pre_revision
        /\ storage = LastCall.pre_storage

\* set of a derived id has failed on a database that holds a memo of that
\* slot, computed by an earlier get.
C17_Witness ==
    /\ BadSet
    /\ LastCall.slot = one(16)
    /\ one(16) \in DOMAIN storage
    /\ revision >= 3

\* The ids registered both as an input and as a key of the query functions.
RegisteredTwice ==
    {input_ids[i] : i \in DOMAIN input_ids} \cap DOMAIN query_functions

(* C18: constructing a database in which an identifier is both an input id *)
(* and a key of the derived functions fails: no database that has served   *)
(* a set or a get has an id in both sets.                                  *)
C18_RegistryDisjoint ==
    (HasSet \/ Returned) => RegisteredTwice = {}

(* C19: no dangling edges: in every state every slot in the dependency set *)
(* of a stored memo has a stored memo, and has_changed_since never fails   *)
(* for want of the memo of a dependency.                                   *)
C19_NoDanglingEdges ==
    /\ \A s \in DOMAIN storage : storage[s].dependencies \subseteq DOMAIN storage
    /\ panicked # "previously queried values always exist"

\* has_changed_since has been asked about the dependencies of a stored memo
\* that depends on derived slots.
C19_Witness ==
    /\ two(16) \in DOMAIN storage
    /\ {one(16), one(17)} \subseteq storage[two(16)].dependencies
    /\ \E i \in DOMAIN events :
          events[i].ev = "ChangedAt" /\ events[i].slot = one(17)

\* The slots whose memo a step stores or replaces.
Written == {s \in DOMAIN storage' : s \notin DOMAIN storage \/ storage'[s] # storage[s]}

(* C20: the memo store only grows: no step of a set or of a get removes a  *)
(* slot from it; a step changes the memo of at most one slot, replacing it *)
(* as a whole through store_memo, and that step is set, the lazy refresh   *)
(* of an input, a validation or the end of a recomputation.                *)
C20_StoreOnlyGrows ==
    [][/\ DOMAIN storage \subseteq DOMAIN storage'
       /\ Cardinality(Written) <= 1
       /\ \A s \in Written :
             /\ events' # <<>>
             /\ LET n == Len(events')
                    stored == IF events'[n].ev = "ChangedAt" /\ n >= 2
                              THEN events'[n - 1] ELSE events'[n]
                IN  /\ stored.ev = "StoreMemo"
                    /\ stored.slot = s
                    /\ stored.arg = storage'[s]
       ]_vars

\* A get has returned that inserted the memo of a slot that had none and
\* replaced the memo of a slot that had one.
C20_Witness ==
    /\ Returned
    /\ DOMAIN LastCall.pre_storage \subseteq DOMAIN storage
    /\ \E s \in DOMAIN storage : s \notin DOMAIN LastCall.pre_storage
    /\ \E s \in DOMAIN LastCall.pre_storage :
          /\ storage[s] # LastCall.pre_storage[s]
          /\ storage[s].value = LastCall.pre_storage[s].value

(* C21: every memo stored for an input slot has an empty dependency set:   *)
(* after set, and after the lazy refresh of verified_at when the input is  *)
(* read, by the client or from inside a query function.                    *)
C21_InputsHaveNoDependencies ==
    \A s \in DOMAIN storage :
        is_input_query(s.id) => storage[s].dependencies = {}

\* A get of a derived slot has returned after its query function read an
\* input whose memo the read refreshed.
C21_Witness ==
    /\ Returned
    /\ ~ is_input_query(LastCall.slot.id)
    /\ LastCall.slot \in Evaluated
    /\ \E s \in DOMAIN LastCall.pre_storage :
          /\ is_input_query(s.id)
          /\ storage[s].verified_at > LastCall.pre_storage[s].verified_at
          /\ storage[s].dependencies = {}
          /\ s \in storage[LastCall.slot].dependencies

\* The positions in the log of the current client call at which the
\* dependency checks of a slot ended with no dependency changed.
Unchanged == {i \in DOMAIN events : events[i].ev = "CompletedInputChecks"
                                     /\ events[i].arg = FALSE}

(* C22: mid-level early cutoff: when get reaches a derived slot whose memo *)
(* has verified_at < R and has_changed_since(D, memo.verified_at) is false *)
(* for every dependency D, the memo is replaced by one that differs only   *)
(* in verified_at = R, the slot's query function is not invoked, and value *)
(* and changed_at of the old memo are returned; and a get of a slot whose  *)
(* dependencies all answer so ends that way.                               *)
C22_MidLevelCutoff ==
    /\ (calls # <<>> /\ LastCall.op = "get") =>
          \A i \in Unchanged :
              LET slot == events[i].slot
                  old == LastCall.pre_storage[slot]
              IN  /\ slot \in DOMAIN LastCall.pre_storage
                  /\ old.verified_at < revision
                  /\ \A D \in old.dependencies : \E j \in 1 .. i :
                        /\ events[j].ev = "ChangedAt"
                        /\ events[j].slot = D
                        /\ ~ changed_since(events[j].arg, old.verified_at)
                  /\ i < Len(events)
                  /\ events[i + 1].ev = "StoreMemo"
                  /\ events[i + 1].slot = slot
                  /\ events[i + 1].arg = [old EXCEPT !.verified_at = revision]
                  /\ slot \notin Evaluated
                  /\ (i + 2 <= Len(events) /\ events[i + 2].ev = "ChangedAt") =>
                        /\ events[i + 2].slot = slot
                        /\ events[i + 2].arg = old.changed_at
                  /\ (Returned /\ i + 1 = Len(events)) =>
                        /\ LastCall.slot = slot
                        /\ LastCall.result = Some(old.value)
                        /\ storage[slot] = [old EXCEPT !.verified_at = revision]
    /\ (/\ Returned
        /\ ~ is_input_query(LastCall.slot.id)
        /\ LastCall.slot \in DOMAIN LastCall.pre_storage
        /\ LastCall.pre_storage[LastCall.slot].verified_at < revision
        /\ \A D \in LastCall.pre_storage[LastCall.slot].dependencies :
              /\ storage[D].verified_at = revision
              /\ ~ changed_since(storage[D].changed_at,
                                 LastCall.pre_storage[LastCall.slot].verified_at))
       => /\ Len(events) - 1 \in Unchanged
          /\ LastCall.slot \notin Evaluated

\* A get of two(16) has returned by the cutoff, after the nested get of one
\* of its dependencies ended by the cutoff too.
C22_Witness ==
    /\ Returned
    /\ LastCall.slot = two(16)
    /\ Len(events) - 1 \in Unchanged
    /\ \E i \in Unchanged : events[i].slot = one(17)
    /\ Evaluated = {}
    /\ storage[two(16)].changed_at < storage[two(16)].verified_at

\* The dependencies of a frame's memo that has_changed_since has answered for.
Checked(frame) == frame.memo[1].dependencies \ frame.todo

(* C23: has_changed_since(slot, r) returns true exactly when the slot's    *)
(* changed_at is greater than r, and when it has returned the slot's memo  *)
(* is verified at the current revision: in every get that is checking the  *)
(* dependencies of a memo, each dependency answered for is verified at the *)
(* current revision, and a change has been reported exactly when one of    *)
(* them has changed_at above the memo's verified_at.                       *)
C23_HasChangedSince ==
    \A k \in DOMAIN stack :
        stack[k].pc = "check" =>
            LET r == stack[k].memo[1].verified_at IN
            /\ \A D \in Checked(stack[k]) :
                  /\ D \in DOMAIN storage
                  /\ storage[D].verified_at = revision
            /\ stack[k].changed <=>
                  \E D \in Checked(stack[k]) : storage[D].changed_at > r

\* has_changed_since has returned true for a derived dependency that its
\* recursive get recomputed, and false for another dependency before it.
C23_Witness ==
    /\ Running /\ Top.pc = "check" /\ Top.changed
    /\ \E D \in Checked(Top) :
          /\ D \in Evaluated
          /\ storage[D].changed_at > Top.memo[1].verified_at
    /\ \E D \in Checked(Top) : storage[D].changed_at <= Top.memo[1].verified_at

\* The positions in the log of the current client call at which a query
\* function returned; the event holds the slots that run read, and the next
\* event the memo stored for it.
Completed == {i \in DOMAIN events : events[i].ev = "CompletedQueryEvaluation"}

(* C24: the dependency set stored after a recomputation contains every     *)
(* slot the query function read during that run, also the slots whose read *)
(* was served from the fast path.                                          *)
C24_DependenciesCoverReads ==
    \A i \in Completed :
        /\ i < Len(events)
        /\ events[i + 1].ev = "StoreMemo"
        /\ events[i + 1].slot = events[i].slot
        /\ events[i].arg \subseteq events[i + 1].arg.dependencies

\* get(two(16)) has evaluated two(16), whose read of one(16) was served from
\* the memo an earlier get of this revision had verified.
C24_Witness ==
    /\ Returned
    /\ LastCall.slot = two(16)
    /\ two(16) \in Evaluated /\ one(16) \notin Evaluated
    /\ one(16) \in DOMAIN LastCall.pre_storage
    /\ LastCall.pre_storage[one(16)].verified_at = revision
    /\ {one(16), one(17)} \subseteq storage[two(16)].dependencies

(* C25: whenever no get is executing, every stored memo verified at the    *)
(* current revision has only dependencies whose memos are verified at the  *)
(* current revision too.                                                   *)
C25_VerifiedDependencies ==
    stack = <<>> =>
        \A s \in DOMAIN storage :
            storage[s].verified_at = revision =>
                \A D \in storage[s].dependencies :
                    /\ D \in DOMAIN storage
                    /\ storage[D].verified_at = revision

\* A get has brought the memo of a derived slot and of its dependencies up to
\* the current revision, while the memo of another slot is left at an earlier
\* revision.
C25_Witness ==
    /\ Returned
    /\ ~ is_input_query(LastCall.slot.id)
    /\ LastCall.slot \in DOMAIN LastCall.pre_storage
    /\ LastCall.pre_storage[LastCall.slot].verified_at < revision
    /\ storage[LastCall.slot].verified_at = revision
    /\ \E D \in storage[LastCall.slot].dependencies :
          /\ LastCall.pre_storage[D].verified_at < revision
          /\ storage[D].verified_at = revision
    /\ \E s \in DOMAIN storage : storage[s].verified_at < revision

\* The positions in the log of the current client call at which the query
\* function of slot was invoked.
Invocations(slot) ==
    {i \in DOMAIN events : events[i].ev = "StartedQueryEvaluation"
                           /\ events[i].slot = slot}

(* C26: between two consecutive sets the query function of a derived slot  *)
(* is invoked at most once: a get invokes it at most once, however many    *)
(* slots read it; it invokes it only for a slot whose memo, when the get   *)
(* began, was missing or verified before the current revision; and the     *)
(* memo stored when an invocation ends is verified at the current          *)
(* revision, where later gets of the revision leave it.                    *)
C26_InvokedOncePerRevision ==
    (calls # <<>> /\ LastCall.op = "get") =>
        /\ \A s \in Evaluated :
              /\ Cardinality(Invocations(s)) = 1
              /\ s \in DOMAIN LastCall.pre_storage =>
                    LastCall.pre_storage[s].verified_at < revision
        /\ \A i \in Completed :
              /\ events[i + 1].ev = "StoreMemo"
              /\ events[i + 1].arg.verified_at = revision
        /\ \A s \in DOMAIN LastCall.pre_storage :
              LastCall.pre_storage[s].verified_at = revision =>
                  /\ s \notin Evaluated
                  /\ storage[s].verified_at = revision

\* Two gets of one revision: get(one(16)) evaluated one(16), and get(two(16))
\* then evaluated two(16) and one(17) and took one(16) from its memo.
C26_Witness ==
    /\ Returned
    /\ Len(calls) = 2
    /\ calls[1].op = "get" /\ calls[1].slot = one(16)
    /\ one(16) \notin DOMAIN calls[1].pre_storage
    /\ LastCall.slot = two(16)
    /\ Evaluated = {two(16), one(17)}
    /\ one(16) \in storage[two(16)].dependencies

(* C27: for every slot, verified_at and changed_at never decrease: no step *)
(* of a set or of a get stores a memo with a stamp below the one the       *)
(* slot's memo had.                                                        *)
C27_StampsNeverDecrease ==
    [][\A s \in DOMAIN storage :
          /\ s \in DOMAIN storage'
          /\ storage'[s].verified_at >= storage[s].verified_at
          /\ storage'[s].changed_at >= storage[s].changed_at]_vars

\* A get has returned that advanced both stamps of one memo and only
\* verified_at of another.
C27_Witness ==
    /\ Returned
    /\ \E s \in DOMAIN LastCall.pre_storage :
          /\ storage[s].verified_at > LastCall.pre_storage[s].verified_at
          /\ storage[s].changed_at > LastCall.pre_storage[s].changed_at
    /\ \E s \in DOMAIN LastCall.pre_storage :
          /\ storage[s].verified_at > LastCall.pre_storage[s].verified_at
          /\ storage[s].changed_at = LastCall.pre_storage[s].changed_at

\* A client get of the slot that reads itself is the last call made.
SelfGet == calls # <<>> /\ LastCall.op = "get" /\ LastCall.slot.id = SELF_FEE

(* C28: a get whose query functions are acyclic terminates with a value;   *)
(* a get of a slot whose query function reads its own slot never returns   *)
(* and never fails, and the active-query stack grows with each re-entry,   *)
(* up to any depth that is followed.                                       *)
C28_Termination ==
    /\ (Running /\ ~ SelfGet) ~> Returned
    /\ [](SelfGet => /\ LastCall.result = None
                     /\ panicked = ""
                     /\ stack # <<>>
                     /\ Len(active_queries) = Len(stack)
                     /\ \A k \in DOMAIN stack : stack[k].slot = LastCall.slot)
    /\ SelfGet ~> [](Len(active_queries) = MaxDepth)

\* The get of the slot that reads itself has re-entered the slot as often as
\* is followed: every get in progress is of that slot, and every accumulator
\* below the top holds it.
C28_Witness ==
    /\ SelfGet
    /\ Len(stack) = MaxDepth
    /\ Len(active_queries) = MaxDepth
    /\ \A k \in 1 .. MaxDepth - 1 : active_queries[k] = {LastCall.slot}
    /\ LastCall.result = None

====
